---- MODULE Spec2Model ----
(***************************************************************************)
(* A model of qdpdf.PDFWriter (src/qdpdf.py): the incremental writer that  *)
(* allocates object identifiers, records the offset of every object in     *)
(* obj_offsets as it is written to an append-only sink, and at close()     *)
(* emits the catalog, the page list, the xref table and the trailer.       *)
(*                                                                         *)
(* The sink is modelled by the sequence of write() calls it received       *)
(* (stream) and its position (pos).  A write is a record                   *)
(*     [k |-> kind of text, a |-> the numbers formatted into it,           *)
(*      n |-> its length in bytes].                                        *)
(* A call of add_page or close is a sequence of steps, one per method it   *)
(* calls; pc is the position of the call in progress.                      *)
(***************************************************************************)
EXTENDS Integers, Sequences, FiniteSets, TLC

VARIABLES
    file,            \* self._file: "open" (the sink) or "None" (after close)
    stream,          \* the sink: every write() it received, in order
    pos,             \* the sink: its position, what tell() returns
    sink_start,      \* the sink: its position when the writer was constructed
    last_obj,        \* self.last_obj
    page_refs,       \* self.page_refs
    obj_offsets,     \* self.obj_offsets
    page_count,      \* self.page_count
    xref_offset,     \* self.xref_offset
    xref_size,       \* self.xref_size
    initial_offset,  \* self.initial_offset
    catalog_ref,     \* self.catalog_ref (0: not set yet)
    pc,              \* the position of the call in progress, "idle" between calls
    cur,             \* the locals of the call in progress
    last_call,       \* history: the method called last
    last_result,     \* history: how the last finished call ended
    added,           \* history: the page_ref of every add_page that returned
    io_failures,     \* history: how many sink operations have failed
    pre,             \* history: the writer's fields when the call in progress began
    dirty,           \* history: some call failed after changing fields or writing
    mem,             \* the sink and the offsets of the same calls, had every
                     \* payload been passed as a string (followed while the
                     \* sink does not fail)
    conv             \* a call of _pixels_to_points: its arguments, its result

vars == <<file, stream, pos, sink_start, last_obj, page_refs, obj_offsets,
          page_count, xref_offset, xref_size, initial_offset, catalog_ref,
          pc, cur, last_call, last_result, added, io_failures, pre, dirty,
          mem, conv>>

writer == <<file, last_obj, page_refs, obj_offsets, page_count, xref_offset,
            xref_size, initial_offset, catalog_ref>>

sink == <<stream, pos, sink_start>>

history == <<last_call, last_result, added, io_failures, pre, dirty>>

----------------------------------------------------------------------------
(* Bounds of the model.                                                    *)

\* add_page and close are not started once last_obj would pass MaxObj.
MaxObj == 8

\* At most this many sink operations fail in one behaviour of SpecIO.
MaxIOFailures == 1

----------------------------------------------------------------------------
(* Module constants of qdpdf.py.                                           *)

SOI == <<255, 216>>

SOI_size == Len(SOI)

min_jpeg_len == 120

buffer_size == 16384

\* obj_offsets.append(8): the offset reserved for the page list
page_list_placeholder == 8

----------------------------------------------------------------------------
(* Inputs.                                                                 *)

\* A payload is its first bytes (at most SOI_size of them) and its length.
Payloads ==
    { [head |-> <<0, 0>>,     len |-> 10],
      [head |-> <<0, 0>>,     len |-> 120],
      [head |-> <<255, 216>>, len |-> 119],
      [head |-> <<255, 216>>, len |-> 120],
      [head |-> <<255, 216>>, len |-> 16385] }

Widths == {0, 800}

Heights == {0, 600}

Resolutions == {0, 150}

StartPositions == {0, 8}

\* uuid.uuid4(): some fresh token
Tokens == {1, 2}

----------------------------------------------------------------------------
(* Formatting.                                                             *)

RECURSIVE Digits(_)
\* len('%s' % n) for an integer n >= 0
Digits(n) == IF n < 10 THEN 1 ELSE 1 + Digits(n \div 10)

RECURSIVE Size(_)
\* the number of bytes of a sequence of writes
Size(ws) == IF ws = <<>> THEN 0 ELSE Head(ws).n + Size(Tail(ws))

Min(x, y) == IF x < y THEN x ELSE y

\* self._file.write(data)
write(k, a, n) == << [k |-> k, a |-> a, n |-> n] >>

\* _writeln: the data, then the line feed
writeln(k, a, n) == write(k, a, n) \o write("nl", <<>>, 1)

write_obj(ref) == writeln("obj", <<ref>>, Digits(ref) + 6)

write_endobj == writeln("endobj", <<>>, 6)

----------------------------------------------------------------------------
(* _pixels_to_points computes in floating point: pixels is converted to a  *)
(* double, divided by float(resolution), multiplied by 72 and truncated.   *)
(* A Python integer has no width, so an integer is a sequence of bits,     *)
(* most significant first and without leading zeros; a double is m * 2^e   *)
(* with m an integer of at most float_bits bits.                           *)

\* the significand of a double
float_bits == 53

\* x without its leading zeros
Norm(x) ==
    IF \A j \in 1..Len(x) : x[j] = 0 THEN <<>>
    ELSE SubSeq(x, CHOOSE j \in 1..Len(x) :
                     x[j] = 1 /\ \A i \in 1..(j - 1) : x[i] = 0,
                Len(x))

Zeros(n) == [j \in 1..n |-> 0]

\* the w bits of n, for n below 2^w
Bits(n, w) == [j \in 1..w |-> (n \div 2^(w - j)) % 2]

\* the bits of a small integer
Long(n) == Norm(Bits(n, 31))

RECURSIVE Value(_)
\* the small integer of these bits
Value(x) ==
    IF x = <<>> THEN 0 ELSE 2 * Value(SubSeq(x, 1, Len(x) - 1)) + x[Len(x)]

RECURSIVE MulAdd(_, _, _)
\* x * k + c for small k and c, eight bits of x at a time from the right
MulAdd(x, k, c) ==
    IF Len(x) <= 8 THEN Long(Value(x) * k + c)
    ELSE LET t == Value(SubSeq(x, Len(x) - 7, Len(x))) * k + c
         IN  MulAdd(SubSeq(x, 1, Len(x) - 8), k, t \div 256) \o Bits(t % 256, 8)

RECURSIVE Decimal(_)
\* the integer written with these decimal digits
Decimal(ds) ==
    IF ds = <<>> THEN <<>>
    ELSE MulAdd(Decimal(SubSeq(ds, 1, Len(ds) - 1)), 10, ds[Len(ds)])

RECURSIVE Div(_, _, _, _)
\* long division of x by a small d, eight bits of x at a time from bit i on,
\* rem carried in: the bits of the quotient, then the remainder as the last
\* element
Div(x, d, i, rem) ==
    IF i > Len(x) THEN <<rem>>
    ELSE LET t == rem * 256 + Value(SubSeq(x, i, i + 7))
         IN  Bits(t \div d, 8) \o Div(x, d, i + 8, t % d)

\* x divided by a small d: the bits of floor(x / d), then the remainder
DivMod(x, d) == Div(Zeros((8 - (Len(x) % 8)) % 8) \o x, d, 1, 0)

\* floor(x / d)
Quotient(x, d) == LET qr == DivMod(x, d) IN Norm(SubSeq(qr, 1, Len(qr) - 1))

\* the double nearest to x (and to a little more than x when inexact), ties
\* to the even significand
Round(x, inexact) ==
    IF Len(x) <= float_bits THEN [m |-> x, e |-> 0]
    ELSE LET top  == SubSeq(x, 1, float_bits)
             half == x[float_bits + 1] = 1
             low  == inexact \/ \E j \in (float_bits + 2)..Len(x) : x[j] = 1
             up   == half /\ (low \/ top[float_bits] = 1)
         IN  [m |-> IF up THEN MulAdd(top, 1, 1) ELSE top,
              e |-> Len(x) - float_bits]

\* float(n) of an integer n
float(n) == Round(n, FALSE)

\* x / float(resolution) for a double x and a resolution that is a double as
\* it stands (below 2^22): the quotient to two bits more than a significand
\* holds, then rounded
float_div(x, resolution) ==
    LET s  == float_bits + Len(Long(resolution)) + 1
        qr == DivMod(x.m \o Zeros(s), resolution)
        r  == Round(Norm(SubSeq(qr, 1, Len(qr) - 1)), qr[Len(qr)] # 0)
    IN  [m |-> r.m, e |-> x.e - s + r.e]

\* x * k for a double x and a small integer k
float_mul(x, k) ==
    LET r == Round(MulAdd(x.m, k, 0), FALSE)
    IN  [m |-> r.m, e |-> x.e + r.e]

\* int(x): the fraction is dropped
int(x) ==
    IF x.e >= 0 THEN x.m \o Zeros(x.e)
    ELSE IF Len(x.m) + x.e < 1 THEN <<>>
    ELSE SubSeq(x.m, 1, Len(x.m) + x.e)

\* int(pixels / float(resolution) * 72)
pixels_to_points(pixels, resolution) ==
    int(float_mul(float_div(float(pixels), resolution), 72))

----------------------------------------------------------------------------

----------------------------------------------------------------------------
(* What each method writes to the sink, as the sequence of its write()     *)
(* calls.                                                                  *)

\* a mutant of write_header: nothing is written before the first object
write_header_missing == <<>>

\* __init__: the two header lines
write_header == writeln("header", <<>>, 8) \o writeln("binary", <<>>, 6)

write_page(ref, image_ref, contents_ref, width_pt, height_pt) ==
    write_obj(ref)
    \o writeln("page", <<1, contents_ref>>, 42 + Digits(contents_ref))
    \o writeln("resources", <<image_ref>>, 66 + Digits(image_ref))
    \o writeln("mediabox", <<width_pt, height_pt>>,
               19 + Digits(width_pt) + Digits(height_pt))
    \o write_endobj

RECURSIVE read_chunks(_, _)
\* for chunk in iter(lambda: jpegdata.read(buffer_size), ''): write(chunk)
read_chunks(from, len) ==
    IF from >= len THEN <<>>
    ELSE LET to == Min(from + buffer_size, len)
         IN  write("data", <<from, to>>, to - from) \o read_chunks(to, len)

\* a mutant of write_jpegdata: no line feed after the chunks of a file
write_jpegdata_no_newline(jpegdata, jpeg_file) ==
    IF jpeg_file
    THEN read_chunks(0, jpegdata.len)
    ELSE writeln("data", <<0, jpegdata.len>>, jpegdata.len)

\* the payload: in chunks and an empty line, or in one line
write_jpegdata(jpegdata, jpeg_file) ==
    IF jpeg_file
    THEN read_chunks(0, jpegdata.len) \o writeln("data", <<jpegdata.len, jpegdata.len>>, 0)
    ELSE writeln("data", <<0, jpegdata.len>>, jpegdata.len)

write_image(ref, width_px, height_px, grayscale, jpegdata, data_len, jpeg_file) ==
    write_obj(ref)
    \o writeln(IF grayscale THEN "image /DeviceGray" ELSE "image /DeviceRGB",
               <<width_px, height_px>>,
               62 + Digits(width_px) + Digits(height_px)
                  + (IF grayscale THEN 11 ELSE 10))
    \o writeln("image length", <<data_len>>, 56 + Digits(data_len))
    \o write_jpegdata(jpegdata, jpeg_file)
    \o writeln("endstream", <<>>, 9)
    \o write_endobj

\* len(page_contents)
page_contents_len(width_pt, height_pt) == 27 + Digits(width_pt) + Digits(height_pt)

write_contents(ref, width_pt, height_pt) ==
    write_obj(ref)
    \o writeln("length", <<page_contents_len(width_pt, height_pt)>>,
               19 + Digits(page_contents_len(width_pt, height_pt)))
    \o writeln("contents", <<width_pt, height_pt>>,
               page_contents_len(width_pt, height_pt))
    \o writeln("endstream", <<>>, 9)
    \o write_endobj

\* a mutant of write_catalog: the header names object 1
write_catalog_as_object_1(ref) ==
    write_obj(1) \o writeln("catalog", <<1>>, 31) \o write_endobj

write_catalog(ref) ==
    write_obj(ref) \o writeln("catalog", <<1>>, 31) \o write_endobj

RECURSIVE kids_len(_)
\* len(page_refs) for the string built from '%s 0 R ' per page
kids_len(refs) ==
    IF refs = <<>> THEN 0 ELSE Digits(Head(refs)) + 5 + kids_len(Tail(refs))

\* the page list: a[1] is the count, the rest of a are the kids
write_page_list(count, refs) ==
    write_obj(1)
    \o writeln("pages", <<count>> \o refs, 33 + Digits(count) + kids_len(refs))
    \o write_endobj

RECURSIVE xref_entries(_, _)
\* one line per offset: object 0 is the one at the initial offset
xref_entries(offsets, initial) ==
    IF offsets = <<>> THEN <<>>
    ELSE (IF Head(offsets) = initial
          THEN writeln("entry f", <<Head(offsets), 65535>>, 19)
          ELSE writeln("entry n", <<Head(offsets), 0>>, 19))
         \o xref_entries(Tail(offsets), initial)

\* a mutant of write_xref: the line of object 0 is left out
write_xref_skips_first(size, offsets, initial) ==
    writeln("xref", <<>>, 4)
    \o writeln("subsection", <<0, size>>, 2 + Digits(size))
    \o xref_entries(Tail(offsets), initial)

write_xref(size, offsets, initial) ==
    writeln("xref", <<>>, 4)
    \o writeln("subsection", <<0, size>>, 2 + Digits(size))
    \o xref_entries(offsets, initial)

\* a mutant of write_trailer: each half of the ID draws its own token
write_trailer_two_tokens(size, root, id, offset) ==
    writeln("trailer", <<size, root, id, id + 1>>,
            40 + Digits(size) + Digits(root) + 72)
    \o writeln("startxref", <<offset>>, 10 + Digits(offset))
    \o writeln("eof", <<>>, 5)

\* a[3] and a[4] are the two halves of the ID
write_trailer(size, root, id, offset) ==
    writeln("trailer", <<size, root, id, id>>, 40 + Digits(size) + Digits(root) + 72)
    \o writeln("startxref", <<offset>>, 10 + Digits(offset))
    \o writeln("eof", <<>>, 5)

----------------------------------------------------------------------------
(* The pieces of the methods that decide or change the writer's fields.    *)

\* a mutant of check_closed: it never raises
check_closed_never(f) == FALSE

\* _check_closed raises
check_closed(f) == f = "None"

\* a mutant of save_offset: the position goes to the front of the list
save_offset_in_front(offsets, p) == <<p>> \o offsets

\* a mutant of save_offset: the position is not recorded
save_offset_dropped(offsets, p) == offsets

\* _save_offset, after its check
save_offset(offsets, p) == Append(offsets, p)

\* a mutant of set_page_list_offset: the placeholder is kept
set_page_list_offset_skipped(offsets, p) == offsets

\* self.obj_offsets[1] = self._file.tell()
set_page_list_offset(offsets, p) == [offsets EXCEPT ![2] = p]

\* a mutant of add_page_check: a payload of the minimum length is too short
add_page_check_off_by_one(jpegdata, width_px, height_px, resolution) ==
    LET read_soi == SubSeq(jpegdata.head, 1, Min(SOI_size, Len(jpegdata.head)))
        data_len == jpegdata.len
    IN  IF read_soi # SOI THEN "Invalid image data."
        ELSE IF data_len <= min_jpeg_len THEN "Invalid image length."
        ELSE IF width_px < 1 THEN "Invalid image width."
        ELSE IF height_px < 1 THEN "Invalid image height."
        ELSE IF resolution < 1 THEN "Invalid image resolution."
        ELSE "ok"

\* add_page, up to its first write: the error it raises, or "ok"
add_page_check(jpegdata, width_px, height_px, resolution) ==
    LET read_soi == SubSeq(jpegdata.head, 1, Min(SOI_size, Len(jpegdata.head)))
        data_len == jpegdata.len
    IN  IF read_soi # SOI THEN "Invalid image data."
        ELSE IF data_len < min_jpeg_len THEN "Invalid image length."
        ELSE IF width_px < 1 THEN "Invalid image width."
        ELSE IF height_px < 1 THEN "Invalid image height."
        ELSE IF resolution < 1 THEN "Invalid image resolution."
        ELSE "ok"

\* a mutant of add_page_alloc: the page is counted twice
add_page_alloc_counts_twice(err, last, refs, count) ==
    IF err # "ok"
    THEN [last_obj |-> last, page_refs |-> refs, page_count |-> count]
    ELSE [last_obj |-> last + 3, page_refs |-> Append(refs, last + 1),
          page_count |-> count + 2]

\* a mutant of add_page_alloc: last_obj is not moved on
add_page_alloc_keeps_last(err, last, refs, count) ==
    IF err # "ok"
    THEN [last_obj |-> last, page_refs |-> refs, page_count |-> count]
    ELSE [last_obj |-> last, page_refs |-> Append(refs, last + 1),
          page_count |-> count + 1]

\* a mutant of add_page_alloc: the new page goes to the front of page_refs
add_page_alloc_prepends(err, last, refs, count) ==
    IF err # "ok"
    THEN [last_obj |-> last, page_refs |-> refs, page_count |-> count]
    ELSE [last_obj |-> last + 3, page_refs |-> <<last + 1>> \o refs,
          page_count |-> count + 1]

\* a mutant of add_page_alloc: the dimensions are checked after the allocation
add_page_alloc_before_dimensions(err, last, refs, count) ==
    IF err \in {"Invalid image data.", "Invalid image length."}
    THEN [last_obj |-> last, page_refs |-> refs, page_count |-> count]
    ELSE [last_obj |-> last + 3, page_refs |-> Append(refs, last + 1),
          page_count |-> count + 1]

\* the fields add_page allocates from, after a check that ended in err
add_page_alloc(err, last, refs, count) ==
    IF err # "ok"
    THEN [last_obj |-> last, page_refs |-> refs, page_count |-> count]
    ELSE [last_obj |-> last + 3, page_refs |-> Append(refs, last + 1),
          page_count |-> count + 1]

\* a mutant of close_check: an empty document passes
close_check_negative(count) == IF count < 0 THEN "No pages added to PDF." ELSE "ok"

\* close: if self.page_count < 1: raise
close_check(count) == IF count < 1 THEN "No pages added to PDF." ELSE "ok"

\* the asserts of _write_page_list
page_list_asserts(count, refs) == count >= 1 /\ count = Len(refs)

\* the asserts of _write_xref
xref_asserts(size, offsets) == size >= 6 /\ size = Len(offsets)

\* the assert of _write_trailer
trailer_asserts(offset, size, root) == 0 \notin {offset, size, root}

InvalidPayload == {"Invalid image data.", "Invalid image length."}

InvalidDimension ==
    {"Invalid image width.", "Invalid image height.", "Invalid image resolution."}

Closed == "PDF closed."

EmptyDocument == "No pages added to PDF."

----------------------------------------------------------------------------
(* The state after construction: __init__ has recorded the sink's position *)
(* for object 0, reserved the page list's entry and written the header.    *)

NoCall ==
    [page_ref |-> 0, image_ref |-> 0, contents_ref |-> 0, catalog_ref |-> 0,
     width_px |-> 0, height_px |-> 0, width_pt |-> 0, height_pt |-> 0,
     grayscale |-> FALSE, jpegdata |-> [head |-> <<>>, len |-> 0],
     data_len |-> 0, jpeg_file |-> FALSE]

\* the fields a call can change, and the sink's position
Snap == <<file, last_obj, page_refs, obj_offsets, page_count, xref_offset,
          xref_size, catalog_ref, pos>>

\* no call of _pixels_to_points is followed
NoConv == [pixels |-> <<>>, resolution |-> 0, points |-> <<>>, done |-> FALSE]

\* __init__
InitWriter ==
    /\ sink_start \in StartPositions
    /\ file = "open"
    /\ last_obj = 1
    /\ page_refs = <<>>
    /\ obj_offsets = Append(save_offset(<<>>, sink_start), page_list_placeholder)
    /\ initial_offset = sink_start
    /\ page_count = 0
    /\ xref_offset = 0
    /\ xref_size = 0
    /\ catalog_ref = 0
    /\ stream = write_header
    /\ pos = sink_start + Size(write_header)
    /\ pc = "idle"
    /\ cur = NoCall
    /\ last_call = "__init__"
    /\ last_result = "ok"
    /\ added = <<>>
    /\ io_failures = 0
    /\ pre = <<>>
    /\ dirty = FALSE
    /\ mem = [stream |-> write_header,
              pos |-> sink_start + Size(write_header),
              obj_offsets |-> Append(save_offset(<<>>, sink_start),
                                     page_list_placeholder),
              xref_offset |-> 0]

Init == InitWriter /\ conv = NoConv

----------------------------------------------------------------------------
(* Steps.                                                                  *)

\* the sink takes the writes ws
Emit(ws) == stream' = stream \o ws /\ pos' = pos + Size(ws) /\ UNCHANGED sink_start

\* the call goes on with its next method
Goto(p) ==
    /\ pc' = p
    /\ UNCHANGED <<cur, last_call, last_result, added, io_failures, pre, dirty>>

\* the call in progress raises err
Raise(err) ==
    /\ pc' = "idle"
    /\ cur' = NoCall
    /\ last_result' = err
    /\ pre' = <<>>
    /\ dirty' = (dirty \/ Snap' # pre)
    /\ UNCHANGED <<last_call, added, mem, conv>>

\* a call raises before it has called any method of the writer
Reject(call, err) ==
    /\ pc' = "idle"
    /\ last_call' = call
    /\ last_result' = err
    /\ dirty' = (dirty \/ Snap' # Snap)
    /\ UNCHANGED <<cur, added, io_failures, pre, mem, conv>>

\* a call has passed its checks and goes on to its first method
Begin(call, p, locals) ==
    /\ pc' = p
    /\ cur' = locals
    /\ last_call' = call
    /\ last_result' = "pending"
    /\ pre' = Snap
    /\ UNCHANGED <<added, io_failures, dirty, mem, conv>>

\* add_page with these arguments, lines 183-229: the checks, the allocation,
\* the locals
AddPageWith(jpegdata, jpeg_file, width_px, height_px, resolution, grayscale) ==
    LET err == add_page_check(jpegdata, width_px, height_px, resolution)
        al  == add_page_alloc(err, last_obj, page_refs, page_count)
    IN  /\ last_obj' = al.last_obj
        /\ page_refs' = al.page_refs
        /\ page_count' = al.page_count
        /\ UNCHANGED <<file, obj_offsets, xref_offset, xref_size,
                       initial_offset, catalog_ref, sink>>
        /\ IF err # "ok"
           THEN Reject("add_page", err)
           ELSE Begin("add_page", "write_page",
                  [NoCall EXCEPT
                     !.page_ref = last_obj + 1,
                     !.image_ref = last_obj + 2,
                     !.contents_ref = last_obj + 3,
                     !.width_px = width_px,
                     !.height_px = height_px,
                     !.width_pt =
                         Value(pixels_to_points(Long(width_px), resolution)),
                     !.height_pt =
                         Value(pixels_to_points(Long(height_px), resolution)),
                     !.grayscale = grayscale,
                     !.jpegdata = jpegdata,
                     !.data_len = jpegdata.len,
                     !.jpeg_file = jpeg_file])

\* add_page, called between calls with some arguments
AddPage ==
    /\ pc = "idle"
    /\ last_obj + 3 <= MaxObj
    /\ \E jpegdata \in Payloads, jpeg_file \in BOOLEAN, width_px \in Widths,
          height_px \in Heights, resolution \in Resolutions, grayscale \in BOOLEAN :
          AddPageWith(jpegdata, jpeg_file, width_px, height_px, resolution, grayscale)

\* the same calls with every payload a string: an object is written
MemObject(wm) ==
    mem' = [mem EXCEPT !.obj_offsets = save_offset(mem.obj_offsets, mem.pos),
                       !.stream = mem.stream \o wm,
                       !.pos = mem.pos + Size(wm)]

\* the same calls with every payload a string: lines are written
MemEmit(wm) ==
    [mem EXCEPT !.stream = mem.stream \o wm, !.pos = mem.pos + Size(wm)]

\* an object is written: its offset is saved, then its lines ws follow (wm
\* with the payload a string)
WriteObject(ws, wm, next) ==
    IF check_closed(file)
    THEN /\ UNCHANGED <<writer, sink, io_failures>>
         /\ Raise(Closed)
    ELSE /\ obj_offsets' = save_offset(obj_offsets, pos)
         /\ Emit(ws)
         /\ MemObject(wm)
         /\ UNCHANGED conv
         /\ UNCHANGED <<file, last_obj, page_refs, page_count, xref_offset,
                        xref_size, initial_offset>>
         /\ next

\* _write_page
WritePage ==
    /\ pc = "write_page"
    /\ WriteObject(write_page(cur.page_ref, cur.image_ref, cur.contents_ref,
                              cur.width_pt, cur.height_pt),
                   write_page(cur.page_ref, cur.image_ref, cur.contents_ref,
                              cur.width_pt, cur.height_pt),
                   Goto("write_image") /\ UNCHANGED catalog_ref)

\* _write_image
WriteImage ==
    /\ pc = "write_image"
    /\ WriteObject(write_image(cur.image_ref, cur.width_px, cur.height_px,
                               cur.grayscale, cur.jpegdata, cur.data_len,
                               cur.jpeg_file),
                   write_image(cur.image_ref, cur.width_px, cur.height_px,
                               cur.grayscale, cur.jpegdata, cur.data_len,
                               FALSE),
                   Goto("write_contents") /\ UNCHANGED catalog_ref)

\* _write_contents, and add_page returns
WriteContents ==
    /\ pc = "write_contents"
    /\ WriteObject(write_contents(cur.contents_ref, cur.width_pt, cur.height_pt),
                   write_contents(cur.contents_ref, cur.width_pt, cur.height_pt),
                   /\ pc' = "idle"
                   /\ cur' = NoCall
                   /\ last_result' = "ok"
                   /\ added' = Append(added, cur.page_ref)
                   /\ pre' = <<>>
                   /\ UNCHANGED <<catalog_ref, last_call, io_failures, dirty>>)

\* a mutant of close_alloc: the catalog takes the last identifier again
close_alloc_reuses_last(last) == last

\* close: catalog_ref = self.last_obj + 1
close_alloc(last) == last + 1

\* close, lines 241-245: the check and the allocation
Close ==
    /\ pc = "idle"
    /\ last_obj + 1 <= MaxObj
    /\ UNCHANGED <<file, page_refs, obj_offsets, page_count, xref_offset,
                   xref_size, initial_offset, catalog_ref, sink>>
    /\ IF close_check(page_count) # "ok"
       THEN /\ UNCHANGED last_obj
            /\ Reject("close", close_check(page_count))
       ELSE /\ last_obj' = close_alloc(last_obj)
            /\ Begin("close", "write_catalog",
                     [NoCall EXCEPT !.catalog_ref = close_alloc(last_obj)])

\* _write_catalog
WriteCatalog ==
    /\ pc = "write_catalog"
    /\ WriteObject(write_catalog(cur.catalog_ref),
                   write_catalog(cur.catalog_ref),
                   Goto("write_page_list") /\ catalog_ref' = cur.catalog_ref)

\* _write_page_list
WritePageList ==
    /\ pc = "write_page_list"
    /\ IF check_closed(file)
       THEN UNCHANGED <<writer, sink, io_failures>> /\ Raise(Closed)
       ELSE IF ~page_list_asserts(page_count, page_refs)
       THEN UNCHANGED <<writer, sink, io_failures>> /\ Raise("AssertionError")
       ELSE /\ obj_offsets' = set_page_list_offset(obj_offsets, pos)
            /\ Emit(write_page_list(page_count, page_refs))
            /\ mem' = [MemEmit(write_page_list(page_count, page_refs)) EXCEPT
                         !.obj_offsets = set_page_list_offset(mem.obj_offsets, mem.pos)]
            /\ UNCHANGED conv
            /\ UNCHANGED <<file, last_obj, page_refs, page_count, xref_offset,
                           xref_size, initial_offset, catalog_ref>>
            /\ Goto("write_xref")

\* _write_xref
WriteXref ==
    /\ pc = "write_xref"
    /\ IF check_closed(file)
       THEN UNCHANGED <<writer, sink, io_failures>> /\ Raise(Closed)
       ELSE /\ xref_offset' = pos
            /\ xref_size' = last_obj + 1
            /\ UNCHANGED <<file, last_obj, page_refs, obj_offsets, page_count,
                           initial_offset, catalog_ref>>
            /\ IF ~xref_asserts(last_obj + 1, obj_offsets)
               THEN UNCHANGED <<sink, io_failures>> /\ Raise("AssertionError")
               ELSE /\ Emit(write_xref(last_obj + 1, obj_offsets, initial_offset))
                    /\ mem' = [MemEmit(write_xref(last_obj + 1, mem.obj_offsets,
                                                  initial_offset)) EXCEPT
                                 !.xref_offset = mem.pos]
                    /\ UNCHANGED conv
                    /\ Goto("write_trailer")

\* _write_trailer, then self._file = None and close returns
WriteTrailer ==
    /\ pc = "write_trailer"
    /\ IF ~trailer_asserts(xref_offset, xref_size, cur.catalog_ref)
       THEN UNCHANGED <<writer, sink, io_failures>> /\ Raise("AssertionError")
       ELSE IF check_closed(file)
       THEN UNCHANGED <<writer, sink, io_failures>> /\ Raise(Closed)
       ELSE /\ \E id \in Tokens :
                 /\ Emit(write_trailer(xref_size, cur.catalog_ref, id, xref_offset))
                 /\ mem' = MemEmit(write_trailer(xref_size, cur.catalog_ref, id,
                                                 mem.xref_offset))
            /\ file' = "None"
            /\ UNCHANGED <<last_obj, page_refs, obj_offsets, page_count,
                           xref_offset, xref_size, initial_offset, catalog_ref>>
            /\ pc' = "idle"
            /\ cur' = NoCall
            /\ last_result' = "ok"
            /\ pre' = <<>>
            /\ UNCHANGED <<last_call, added, io_failures, dirty, conv>>

Next ==
    \/ AddPage
    \/ WritePage
    \/ WriteImage
    \/ WriteContents
    \/ Close
    \/ WriteCatalog
    \/ WritePageList
    \/ WriteXref
    \/ WriteTrailer

\* the sink never fails
Spec == Init /\ [][Next]_vars

----------------------------------------------------------------------------
(* Sink failures: tell() or write() raises IOError in the middle of a      *)
(* method.  The operations of a method are its tell(), if it has one, then *)
(* its writes; the operations before the failing one have taken effect.    *)

\* the method in progress: whether it calls tell(), and what it writes (id is
\* the token the trailer draws)
Method(id) ==
    CASE pc = "write_page" ->
           [tell |-> TRUE,
            ws |-> write_page(cur.page_ref, cur.image_ref, cur.contents_ref,
                              cur.width_pt, cur.height_pt)]
      [] pc = "write_image" ->
           [tell |-> TRUE,
            ws |-> write_image(cur.image_ref, cur.width_px, cur.height_px,
                               cur.grayscale, cur.jpegdata, cur.data_len,
                               cur.jpeg_file)]
      [] pc = "write_contents" ->
           [tell |-> TRUE,
            ws |-> write_contents(cur.contents_ref, cur.width_pt, cur.height_pt)]
      [] pc = "write_catalog" ->
           [tell |-> TRUE, ws |-> write_catalog(cur.catalog_ref)]
      [] pc = "write_page_list" ->
           [tell |-> TRUE, ws |-> write_page_list(page_count, page_refs)]
      [] pc = "write_xref" ->
           [tell |-> TRUE,
            ws |-> write_xref(last_obj + 1, obj_offsets, initial_offset)]
      [] pc = "write_trailer" ->
           [tell |-> FALSE,
            ws |-> write_trailer(xref_size, cur.catalog_ref, id, xref_offset)]

\* the asserts the method in progress makes before its first sink operation
AssertsBefore ==
    /\ pc = "write_page_list" => page_list_asserts(page_count, page_refs)
    /\ pc = "write_trailer" => trailer_asserts(xref_offset, xref_size, cur.catalog_ref)

\* the asserts the method in progress makes between its tell() and its writes
AssertsAfterTell ==
    pc = "write_xref" => xref_asserts(last_obj + 1, obj_offsets)

\* what the method in progress does with the position tell() returned
AfterTell ==
    /\ obj_offsets' =
         IF pc \in {"write_page", "write_image", "write_contents", "write_catalog"}
         THEN save_offset(obj_offsets, pos)
         ELSE IF pc = "write_page_list"
         THEN set_page_list_offset(obj_offsets, pos)
         ELSE obj_offsets
    /\ xref_offset' = IF pc = "write_xref" THEN pos ELSE xref_offset
    /\ xref_size' = IF pc = "write_xref" THEN last_obj + 1 ELSE xref_size

\* the sink operation number f of the method in progress raises IOError
SinkFailure ==
    /\ pc # "idle"
    /\ ~check_closed(file)
    /\ AssertsBefore
    /\ io_failures < MaxIOFailures
    /\ \E id \in Tokens :
       LET m == Method(id)
           t == IF m.tell THEN 1 ELSE 0
       IN  \E f \in 1 .. (t + Len(m.ws)) :
             /\ f > t => AssertsAfterTell
             /\ IF f <= t
                THEN UNCHANGED <<obj_offsets, xref_offset, xref_size>>
                ELSE IF m.tell THEN AfterTell
                ELSE UNCHANGED <<obj_offsets, xref_offset, xref_size>>
             /\ Emit(SubSeq(m.ws, 1, f - 1 - t))
    /\ UNCHANGED <<file, last_obj, page_refs, page_count, initial_offset, catalog_ref>>
    /\ io_failures' = io_failures + 1
    /\ Raise("IOError")

NextIO == Next \/ SinkFailure

\* the sink may fail
SpecIO == Init /\ [][NextIO]_vars

----------------------------------------------------------------------------
(* _pixels_to_points on its own, with arguments of any size: add_page      *)
(* passes it whatever integers are at least 1.                             *)

\* pixel counts: small ones, and ones near 2^53 / 72
PointPixels ==
    { Long(n) : n \in 1..20 } \cup { Long(800), Long(1508) }
    \cup { MulAdd(Decimal(<<1, 2, 3, 1, 5, 1, 0, 8, 2, 6, 1, 0, 3, 9>>), 10, d) :
             d \in 0..9 }

PointResolutions == {1, 7, 72, 150, 300}

InitPoints ==
    /\ InitWriter
    /\ conv \in { [pixels |-> p, resolution |-> r, points |-> <<>>, done |-> FALSE] :
                   p \in PointPixels, r \in PointResolutions }

\* self._pixels_to_points(pixels, resolution)
Convert ==
    /\ ~conv.done
    /\ conv' = [conv EXCEPT
                  !.points = pixels_to_points(conv.pixels, conv.resolution),
                  !.done = TRUE]
    /\ UNCHANGED <<writer, sink, history, pc, cur, mem>>

SpecPoints == InitPoints /\ [][Convert]_vars

----------------------------------------------------------------------------
(* Reading the sink back.                                                  *)

\* the position in the sink at which write number j begins
PosOf(j) == sink_start + Size(SubSeq(stream, 1, j - 1))

\* the writes that are the header 'i 0 obj'
ObjHeaders(i) ==
    {j \in 1 .. Len(stream) : stream[j].k = "obj" /\ stream[j].a = <<i>>}

\* the identifiers that have a header in the sink
WrittenIds == {stream[j].a[1] : j \in {i \in 1 .. Len(stream) : stream[i].k = "obj"}}

IsEntry(w) == w.k \in {"entry f", "entry n"}

\* the lines of the xref table, in the order written
XrefLines == SelectSeq(stream, IsEntry)

\* the offsets the xref table gives, in the order written
XrefOffsets == [i \in 1 .. Len(XrefLines) |-> XrefLines[i].a[1]]

\* the writes that are the body of the page list
PageLists == {j \in 1 .. Len(stream) : stream[j].k = "pages"}

\* close has returned
CloseReturned == file = "None"

\* the objects of the call in progress that are allocated and not yet begun
Pending ==
    CASE pc = "write_page" -> 3
      [] pc = "write_image" -> 2
      [] pc = "write_contents" -> 1
      [] pc = "write_catalog" -> 1
      [] OTHER -> 0

----------------------------------------------------------------------------
(* Claims.                                                                 *)

\* C1: after add_page calls that returned and a close that returned, the
\* xref line of every identifier i >= 1 gives the position in the sink at which
\* the header 'i 0 obj' begins; so does the line of identifier 1, whose
\* placeholder 8 has been replaced.
C1_XrefOffsetsAreHeaderPositions ==
    CloseReturned =>
        \A i \in 1 .. Len(XrefLines) - 1 :
            /\ ObjHeaders(i) # {}
            /\ \A j \in ObjHeaders(i) : XrefOffsets[i + 1] = PosOf(j)

C1_Witness ==
    /\ CloseReturned
    /\ Len(added) = 2
    /\ Len(XrefLines) = 9
    /\ XrefOffsets[2] # page_list_placeholder

\* C2: after N add_page calls that returned and a close that returned, the xref
\* table has 3N+3 lines, announces 3N+3 entries from 0, and its lines give the
\* entries of obj_offsets in order.
C2_XrefHasOneLinePerEntry ==
    CloseReturned =>
        /\ Len(XrefLines) = 3 * Len(added) + 3
        /\ XrefOffsets = obj_offsets
        /\ \E j \in 1 .. Len(stream) :
              stream[j].k = "subsection" /\ stream[j].a = <<0, 3 * Len(added) + 3>>

C2_Witness == CloseReturned /\ Len(added) = 2 /\ Len(XrefLines) = 9

\* C3: when close has returned, the one page list in the sink is the body of
\* object 1, its kids are the page identifiers of the add_page calls that
\* returned, in call order, and its count is their number.
C3_PageListIsCallOrder ==
    CloseReturned =>
        /\ Cardinality(PageLists) = 1
        /\ \A j \in PageLists :
              /\ stream[j - 2].k = "obj" /\ stream[j - 2].a = <<1>>
              /\ Tail(stream[j].a) = added
              /\ Head(stream[j].a) = Len(added)

C3_Witness ==
    /\ CloseReturned
    /\ added = <<2, 5>>
    /\ \E j \in PageLists : stream[j].a = <<2, 2, 5>>

\* C4: when close has returned after N add_page calls that returned, each of
\* the identifiers 1 .. 3N+2 has exactly one header in the sink, and no other
\* identifier has one.
C4_EveryIdWrittenOnce ==
    CloseReturned =>
        /\ \A i \in 1 .. 3 * Len(added) + 2 : Cardinality(ObjHeaders(i)) = 1
        /\ WrittenIds = 1 .. 3 * Len(added) + 2

C4_Witness == CloseReturned /\ Len(added) = 2 /\ WrittenIds = 1 .. 8

C6_RejectedAddPageChangesNothing ==
    [][(/\ pc = "idle"
        /\ file = "open"
        /\ last_call' = "add_page"
        /\ last_result' \in InvalidPayload \cup InvalidDimension)
       => UNCHANGED <<writer, sink, added>>]_vars

C6_Witness ==
    /\ last_call = "add_page"
    /\ last_result \in InvalidDimension
    /\ file = "open"
    /\ page_count = 1

\* C7: once a call has failed after changing a field of the writer or writing
\* to the sink, no later step writes to the sink and no later call returns.
C7_FailedCallIsNoOpOrSeals ==
    [][dirty => (stream' = stream /\ last_result' # "ok")]_vars

\* C8: a close call on a writer that close has sealed raises the closed error
\* and writes nothing.
C8_SecondCloseRaisesClosed ==
    [][(CloseReturned /\ last_call' = "close" /\ pc' = "idle")
       => (last_result' = Closed /\ UNCHANGED sink)]_vars

C8_Witness == CloseReturned /\ last_call = "close" /\ last_result = Closed

\* C9: an add_page call on a writer that close has sealed raises the closed
\* error, whatever its arguments.
C9_AddPageAfterCloseRaisesClosed ==
    [][(CloseReturned /\ last_call' = "add_page" /\ pc' = "idle")
       => last_result' = Closed]_vars

\* C10: close goes on to write only with a page; a close that raises for an
\* empty document was called with no page, leaves every field of the writer
\* and the sink as they were, and leaves the writer open.
C10_EmptyCloseChangesNothing ==
    [][/\ (pc = "idle" /\ pc' = "write_catalog") => page_count >= 1
       /\ (pc = "idle" /\ last_result' = EmptyDocument)
             => /\ page_count = 0
                /\ file' = "open"
                /\ UNCHANGED <<writer, sink, added>>]_vars

C10_Witness ==
    /\ last_call = "close"
    /\ last_result = EmptyDocument
    /\ file = "open"
    /\ page_count = 0

\* C11: on an open writer add_page raises for its payload exactly when the
\* payload is shorter than min_jpeg_len or does not begin with SOI; otherwise
\* it raises for a dimension exactly when the width, the height or the
\* resolution is below 1; otherwise it goes on, with one more page counted,
\* and returns.
C11_AddPageOutcome ==
    [][/\ \A jpegdata \in Payloads, jpeg_file \in BOOLEAN, width_px \in Widths,
             height_px \in Heights, resolution \in Resolutions,
             grayscale \in BOOLEAN :
             (/\ pc = "idle"
              /\ file = "open"
              /\ AddPageWith(jpegdata, jpeg_file, width_px, height_px,
                             resolution, grayscale))
             => IF jpegdata.len < min_jpeg_len \/ jpegdata.head # SOI
                THEN /\ pc' = "idle"
                     /\ last_result' \in InvalidPayload
                     /\ page_count' = page_count
                ELSE IF width_px < 1 \/ height_px < 1 \/ resolution < 1
                THEN /\ pc' = "idle"
                     /\ last_result' \in InvalidDimension
                     /\ page_count' = page_count
                ELSE /\ pc' = "write_page"
                     /\ page_count' = page_count + 1
       /\ (/\ file = "open"
           /\ pc \in {"write_page", "write_image", "write_contents"}
           /\ pc' = "idle")
          => (last_result' = "ok" /\ page_count' = page_count)]_vars

C11_Witness ==
    /\ last_call = "add_page"
    /\ last_result = "ok"
    /\ file = "open"
    /\ page_count = 2

\* the identifiers a write refers to
Refs(w) ==
    CASE w.k = "page" -> {w.a[1], w.a[2]}
      [] w.k = "resources" -> {w.a[1]}
      [] w.k = "catalog" -> {w.a[1]}
      [] w.k = "pages" -> {w.a[i] : i \in 2 .. Len(w.a)}
      [] w.k = "trailer" -> {w.a[2]}
      [] OTHER -> {}

\* the writes of kind k
Writes(k) == {j \in 1 .. Len(stream) : stream[j].k = k}

\* C12: every allocation takes the identifiers just above last_obj: add_page
\* takes last_obj + 1, + 2, + 3 for its page, image and contents, which for the
\* k-th add_page that returns are 3k-1, 3k, 3k+1; close takes last_obj + 1 for
\* the catalog; so no allocation yields 0 or 1 or an identifier already taken.
C12_IdentifiersIncrease ==
    [][/\ (pc = "idle" /\ pc' = "write_page")
          => /\ cur'.page_ref = last_obj + 1
             /\ cur'.image_ref = last_obj + 2
             /\ cur'.contents_ref = last_obj + 3
             /\ last_obj' = last_obj + 3
             /\ last_obj >= 1
             /\ file = "open" => cur'.page_ref = 3 * (Len(added) + 1) - 1
       /\ (pc = "idle" /\ pc' = "write_catalog")
          => /\ cur'.catalog_ref = last_obj + 1
             /\ last_obj' = last_obj + 1
             /\ last_obj >= 1
       /\ last_obj' >= last_obj]_vars

C12_Witness ==
    /\ pc = "write_catalog"
    /\ cur.catalog_ref = 8
    /\ added = <<2, 5>>

\* C13: every identifier a written page, catalog, page list or trailer refers
\* to is allocated: it lies between 1 and last_obj (which never decreases),
\* whether or not its object is written yet.
C13_ReferencesAreAllocated ==
    \A j \in 1 .. Len(stream) : \A r \in Refs(stream[j]) : r >= 1 /\ r <= last_obj

C13_Witness ==
    /\ pc = "write_image"
    /\ \E j \in Writes("page") :
          /\ stream[j].a = <<1, cur.contents_ref>>
          /\ cur.contents_ref \notin WrittenIds
          /\ 1 \notin WrittenIds

\* C14: in a written xref table the first line, that of identifier 0, and only
\* that line has generation 65535 and the free flag; every later line has
\* generation 0 and the active flag; for each starting position of the sink.
C14_OnlyEntryZeroIsFree ==
    CloseReturned =>
        /\ XrefLines[1].k = "entry f" /\ XrefLines[1].a[2] = 65535
        /\ \A i \in 2 .. Len(XrefLines) :
              XrefLines[i].k = "entry n" /\ XrefLines[i].a[2] = 0

C14_Witness ==
    /\ CloseReturned
    /\ sink_start = page_list_placeholder
    /\ Len(XrefLines) = 6
    /\ XrefLines[2].k = "entry n"

\* C16: the trailer written by a close that returned gives as size the number
\* of xref lines, as root the identifier of the catalog, which is the last
\* one allocated by then, the same token in both halves of the ID, and as
\* startxref the position at which the line 'xref' begins.
C16_TrailerMatchesIndex ==
    CloseReturned =>
        /\ Cardinality(Writes("trailer")) = 1
        /\ Cardinality(Writes("startxref")) = 1
        /\ Cardinality(Writes("xref")) = 1
        /\ \A t \in Writes("trailer") :
              /\ stream[t].a[1] = Len(XrefLines)
              /\ stream[t].a[2] = 3 * Len(added) + 2
              /\ \E c \in Writes("catalog") : stream[c - 2] = [k |-> "obj", a |-> <<stream[t].a[2]>>, n |-> Digits(stream[t].a[2]) + 6]
              /\ stream[t].a[3] = stream[t].a[4]
        /\ \A x \in Writes("xref"), sx \in Writes("startxref") :
              stream[sx].a = <<PosOf(x)>>

C16_Witness ==
    /\ CloseReturned
    /\ Len(added) = 2
    /\ \E t \in Writes("trailer") : stream[t].a = <<9, 8, 2, 2>>

\* C18 (as stated): a call that raises the closed error leaves page_count,
\* page_refs, last_obj and obj_offsets as they were when it was called.
C18_ClosedErrorChangesNothing ==
    [][(pc # "idle" /\ last_result' = Closed)
       => <<last_obj', page_refs', obj_offsets', page_count'>>
            = <<pre[2], pre[3], pre[4], pre[5]>>]_vars

\* C19: while the sink does not fail no assert of close fails: the page list
\* is reached with page_count >= 1 and page_count = len(page_refs), the xref
\* table with last_obj + 1 >= 6 and last_obj + 1 = len(obj_offsets), the
\* trailer with xref_offset, xref_size and the catalog identifier all not 0.
C19_NoAssertFails ==
    /\ last_result # "AssertionError"
    /\ pc = "write_page_list" => page_count >= 1 /\ page_count = Len(page_refs)
    /\ pc = "write_xref" => last_obj + 1 >= 6 /\ last_obj + 1 = Len(obj_offsets)
    /\ pc = "write_trailer" =>
          xref_offset # 0 /\ xref_size # 0 /\ cur.catalog_ref # 0

C19_Witness ==
    /\ pc = "write_trailer"
    /\ io_failures = 0
    /\ sink_start = 0
    /\ xref_size = 6

\* the identifiers of the headers in the sink, in the order written
IsObj(w) == w.k = "obj"

ObjOrder == [i \in 1 .. Len(SelectSeq(stream, IsObj)) |-> SelectSeq(stream, IsObj)[i].a[1]]

\* the kind of write number j of the sink, "end" past its end
KindAt(j) == IF j > Len(stream) THEN "end" ELSE stream[j].k

\* the kinds of line that may follow the header of identifier i when the
\* catalog is identifier c (0: none written yet)
BodyOf(i, c) ==
    IF i = 1 THEN {"pages"}
    ELSE IF i = c THEN {"catalog"}
    ELSE IF i % 3 = 2 THEN {"page"}
    ELSE IF i % 3 = 0 THEN {"image /DeviceGray", "image /DeviceRGB"}
    ELSE {"length"}

\* C20: the sink receives the header lines, then for each page in call order
\* its page, image and contents, then the catalog, then the page list, then
\* the xref table, then the trailer; so when the xref table is written the
\* offsets of identifiers 2 .. last increase with the identifier, all lie
\* past that of entry 0, and that of identifier 1 lies past all of them.
C20_WriteOrder ==
    /\ SubSeq(stream, 1, Len(write_header)) = write_header
    /\ \A i \in 1 .. Len(ObjOrder) :
          \/ ObjOrder[i] = i + 1
          \/ /\ i = Len(ObjOrder)
             /\ ObjOrder[i] = 1
             /\ i = 3 * Len(added) + 2
             /\ pc \in {"write_xref", "write_trailer"} \/ CloseReturned
    /\ file = "open" =>
          \A j \in Writes("obj") :
             KindAt(j + 2) \in BodyOf(stream[j].a[1], catalog_ref)
    /\ \A x \in Writes("xref") :
          /\ \A j \in Writes("obj") : j < x
          /\ \A j \in Writes("trailer") : j > x
          /\ \A j \in Writes("entry f") \cup Writes("entry n") : j > x
          /\ \A j \in Writes("trailer"), e \in Writes("entry f") \cup Writes("entry n") : e < j
    /\ (pc \in {"write_xref", "write_trailer"} \/ CloseReturned) =>
          /\ \A i \in 3 .. Len(obj_offsets) - 1 : obj_offsets[i] < obj_offsets[i + 1]
          /\ \A i \in 2 .. Len(obj_offsets) : obj_offsets[i] > obj_offsets[1]
          /\ \A i \in 3 .. Len(obj_offsets) : obj_offsets[2] > obj_offsets[i]

C20_Witness ==
    /\ CloseReturned
    /\ ObjOrder = <<2, 3, 4, 5, 6, 7, 8, 1>>
    /\ Len(obj_offsets) = 9

----------------------------------------------------------------------------
(* C15: a payload read from a file and the same payload passed as a string *)

\* the bytes of a sequence of writes that starts at position start, as the
\* set of what lies where: a line at its position, and a range of a payload
\* at its position cut at the multiples of buffer_size, so that neither a
\* write of no byte nor the way a payload was split into writes shows
Bytes(ws, start) ==
    UNION { LET w == ws[j]
                p == start + Size(SubSeq(ws, 1, j - 1))
            IN  IF w.n = 0 THEN {}
                ELSE IF w.k = "data"
                THEN { <<p - w.a[1] + b * buffer_size, "data",
                         b * buffer_size, Min(w.a[2], (b + 1) * buffer_size)>> :
                       b \in (w.a[1] \div buffer_size) ..
                              ((w.a[2] - 1) \div buffer_size) }
                ELSE { <<p, w.k, w.a, w.n>> } :
            j \in 1..Len(ws) }

\* C15: with the same calls, arguments and trailer token, the sink holds the
\* same bytes and the writer the same offsets whether each payload was read
\* from a file in chunks or passed as a string.
C15_FileAndStringPayloadsAgree ==
    /\ Bytes(stream, sink_start) = Bytes(mem.stream, sink_start)
    /\ pos = mem.pos
    /\ obj_offsets = mem.obj_offsets
    /\ xref_offset = mem.xref_offset

\* a closed document with a payload that was read from a file in two chunks
C15_Witness ==
    /\ CloseReturned
    /\ \E j \in 1..Len(stream) - 1 :
          /\ stream[j].k = "data" /\ stream[j].n = buffer_size
          /\ stream[j + 1].k = "data" /\ stream[j + 1].n = 1
    /\ Len(stream) > Len(mem.stream)

----------------------------------------------------------------------------
(* C17: points from pixels and resolution *)

\* floor(pixels * 72 / resolution), in integers
floor_points(pixels, resolution) == Quotient(MulAdd(pixels, 72, 0), resolution)

\* C17: for all integers pixels >= 1 and resolution >= 1, the dimension in
\* points is floor(pixels * 72 / resolution).
C17_PointsAreFloor ==
    conv.done => conv.points = floor_points(conv.pixels, conv.resolution)

============================================================================
